---- MODULE Spec2Model ----
(***************************************************************************)
(* Seat booking with reversible commands (Booking.py).                     *)
(*                                                                         *)
(* One EventSession "s1" holds the seats 1..NumSeats (added in that order, *)
(* so dict iteration order is the numeric order).  The commands            *)
(* ReserveSeat, CancelReservation, PurchaseTicket and one ChangeSeat       *)
(* instance are called either directly (SpecCmd) or through the            *)
(* BookingProcessor (SpecProc).  A Python call ends in one of three ways:  *)
(* it returns True, returns False, or raises ("raised").                   *)
(***************************************************************************)
EXTENDS Integers, Sequences, FiniteSets, TLC

\* ---------------------------------------------------------------- bounds
NumSeats == 2
NumUsers == 2
MaxCalls == 5

\* ------------------------------------------------------------- constants
NoUser == 0
NoSeatId == 0
NoStatus == "None"
NoSession == "None"
TheSession == "s1"

Seats == 1..NumSeats
\* seat ids a caller may pass: the session's seats and one id it does not hold
SeatIds == 1..(NumSeats + 1)
Users == 1..NumUsers

SeatStatus == {"FREE", "RESERVED", "SOLD"}

Commands == {"ReserveSeat", "CancelReservation", "PurchaseTicket", "ChangeSeat"}

\* Seat.__init__: a new seat is FREE with no user
Seat == [status |-> "FREE", current_user |-> NoUser]

\* ChangeSeat.__init__
ChangeSeat_init == [old_seat_id |-> NoSeatId, old_status |-> NoStatus, old_user |-> NoUser]

VARIABLES seats, change_cmd, history, call, before, undo_of_prev, ncalls, n_ok, n_pop,
          scenario

vars == <<seats, change_cmd, history, call, before, undo_of_prev, ncalls, n_ok, n_pop,
          scenario>>

\* ------------------------------------------------------- EventSession
\* EventSession.get_seat: the seat, or absent (modelled by has_seat)
has_seat(ss, seat_id) == seat_id \in DOMAIN ss

\* ------------------------------------------------------------ outcomes
Returned(b, ss, self) == [ret |-> IF b THEN "true" ELSE "false", seats |-> ss, self |-> self]
Raised(ss, self) == [ret |-> "raised", seats |-> ss, self |-> self]

\* ------------------------------------------------------------ ReserveSeat
\* variant: only a SOLD seat is rejected
ReserveSeat_execute_rejects_sold_only(self, session, ss, seat_id, user) ==
    IF session = NoSession THEN Raised(ss, self)
    ELSE IF ~has_seat(ss, seat_id) \/ ss[seat_id].status = "SOLD"
         THEN Returned(FALSE, ss, self)
         ELSE Returned(TRUE,
                       [ss EXCEPT ![seat_id] = [status |-> "RESERVED", current_user |-> user]],
                       self)

ReserveSeat_execute(self, session, ss, seat_id, user) ==
    IF session = NoSession THEN Raised(ss, self)
    ELSE IF ~has_seat(ss, seat_id) \/ ss[seat_id].status # "FREE"
         THEN Returned(FALSE, ss, self)
         ELSE Returned(TRUE,
                       [ss EXCEPT ![seat_id] = [status |-> "RESERVED", current_user |-> user]],
                       self)

\* variant: the occupant is not cleared on undo
ReserveSeat_undo_keeps_user(self, session, ss, seat_id, user) ==
    IF session = NoSession THEN Raised(ss, self)
    ELSE IF \/ ~has_seat(ss, seat_id)
            \/ ss[seat_id].status # "RESERVED"
            \/ ss[seat_id].current_user # user
         THEN Returned(FALSE, ss, self)
         ELSE Returned(TRUE, [ss EXCEPT ![seat_id].status = "FREE"], self)

ReserveSeat_undo(self, session, ss, seat_id, user) ==
    IF session = NoSession THEN Raised(ss, self)
    ELSE IF \/ ~has_seat(ss, seat_id)
            \/ ss[seat_id].status # "RESERVED"
            \/ ss[seat_id].current_user # user
         THEN Returned(FALSE, ss, self)
         ELSE Returned(TRUE,
                       [ss EXCEPT ![seat_id] = [status |-> "FREE", current_user |-> NoUser]],
                       self)

\* ------------------------------------------------------ CancelReservation
\* variant: every reservation of the user is cancelled, not only the named seat's
CancelReservation_execute_all_of_user(self, session, ss, seat_id, user) ==
    IF session = NoSession THEN Raised(ss, self)
    ELSE IF \/ ~has_seat(ss, seat_id)
            \/ ss[seat_id].status # "RESERVED"
            \/ ss[seat_id].current_user # user
         THEN Returned(FALSE, ss, self)
         ELSE Returned(TRUE,
                       [i \in DOMAIN ss |->
                            IF ss[i].status = "RESERVED" /\ ss[i].current_user = user
                            THEN [status |-> "FREE", current_user |-> NoUser]
                            ELSE ss[i]],
                       self)

\* variant: any user may cancel a reservation
CancelReservation_execute_any_user(self, session, ss, seat_id, user) ==
    IF session = NoSession THEN Raised(ss, self)
    ELSE IF ~has_seat(ss, seat_id) \/ ss[seat_id].status # "RESERVED"
         THEN Returned(FALSE, ss, self)
         ELSE Returned(TRUE,
                       [ss EXCEPT ![seat_id] = [status |-> "FREE", current_user |-> NoUser]],
                       self)

CancelReservation_execute(self, session, ss, seat_id, user) ==
    IF session = NoSession THEN Raised(ss, self)
    ELSE IF \/ ~has_seat(ss, seat_id)
            \/ ss[seat_id].status # "RESERVED"
            \/ ss[seat_id].current_user # user
         THEN Returned(FALSE, ss, self)
         ELSE Returned(TRUE,
                       [ss EXCEPT ![seat_id] = [status |-> "FREE", current_user |-> NoUser]],
                       self)

CancelReservation_undo(self, session, ss, seat_id, user) ==
    IF session = NoSession THEN Raised(ss, self)
    ELSE IF ~has_seat(ss, seat_id) \/ ss[seat_id].status # "FREE"
         THEN Returned(FALSE, ss, self)
         ELSE Returned(TRUE,
                       [ss EXCEPT ![seat_id] = [status |-> "RESERVED", current_user |-> user]],
                       self)

\* --------------------------------------------------------- PurchaseTicket
\* variant: the status is not tested, any existing seat can be bought
PurchaseTicket_execute_any_status(self, session, ss, seat_id, user) ==
    IF session = NoSession THEN Raised(ss, self)
    ELSE IF ~has_seat(ss, seat_id)
         THEN Returned(FALSE, ss, self)
         ELSE Returned(TRUE,
                       [ss EXCEPT ![seat_id] = [status |-> "SOLD", current_user |-> user]],
                       self)

\* variant: a RESERVED seat can only be bought by the user who reserved it
PurchaseTicket_execute_checks_user(self, session, ss, seat_id, user) ==
    IF session = NoSession THEN Raised(ss, self)
    ELSE IF \/ ~has_seat(ss, seat_id)
            \/ (ss[seat_id].status # "RESERVED" /\ ss[seat_id].status # "FREE")
            \/ (ss[seat_id].status = "RESERVED" /\ ss[seat_id].current_user # user)
         THEN Returned(FALSE, ss, self)
         ELSE Returned(TRUE,
                       [ss EXCEPT ![seat_id] = [status |-> "SOLD", current_user |-> user]],
                       self)

PurchaseTicket_execute(self, session, ss, seat_id, user) ==
    IF session = NoSession THEN Raised(ss, self)
    ELSE IF \/ ~has_seat(ss, seat_id)
            \/ (ss[seat_id].status # "RESERVED" /\ ss[seat_id].status # "FREE")
         THEN Returned(FALSE, ss, self)
         ELSE Returned(TRUE,
                       [ss EXCEPT ![seat_id] = [status |-> "SOLD", current_user |-> user]],
                       self)

\* variant: the seat is set FREE but keeps its user
PurchaseTicket_undo_keeps_user(self, session, ss, seat_id, user) ==
    IF session = NoSession THEN Raised(ss, self)
    ELSE IF \/ ~has_seat(ss, seat_id)
            \/ ss[seat_id].status # "SOLD"
            \/ ss[seat_id].current_user # user
         THEN Returned(FALSE, ss, self)
         ELSE Returned(TRUE, [ss EXCEPT ![seat_id].status = "FREE"], self)

\* variant: the occupant is not compared
PurchaseTicket_undo_any_user(self, session, ss, seat_id, user) ==
    IF session = NoSession THEN Raised(ss, self)
    ELSE IF ~has_seat(ss, seat_id) \/ ss[seat_id].status # "SOLD"
         THEN Returned(FALSE, ss, self)
         ELSE Returned(TRUE,
                       [ss EXCEPT ![seat_id] = [status |-> "FREE", current_user |-> NoUser]],
                       self)

\* variant: undoing a purchase puts the seat back to RESERVED for the user
PurchaseTicket_undo_restores_reserved(self, session, ss, seat_id, user) ==
    IF session = NoSession THEN Raised(ss, self)
    ELSE IF \/ ~has_seat(ss, seat_id)
            \/ ss[seat_id].status # "SOLD"
            \/ ss[seat_id].current_user # user
         THEN Returned(FALSE, ss, self)
         ELSE Returned(TRUE, [ss EXCEPT ![seat_id].status = "RESERVED"], self)

PurchaseTicket_undo(self, session, ss, seat_id, user) ==
    IF session = NoSession THEN Raised(ss, self)
    ELSE IF \/ ~has_seat(ss, seat_id)
            \/ ss[seat_id].status # "SOLD"
            \/ ss[seat_id].current_user # user
         THEN Returned(FALSE, ss, self)
         ELSE Returned(TRUE,
                       [ss EXCEPT ![seat_id] = [status |-> "FREE", current_user |-> NoUser]],
                       self)

\* ------------------------------------------------------------- ChangeSeat
\* the seats the search loop of ChangeSeat.execute accepts
UserSeats(ss, user) ==
    {i \in DOMAIN ss : ss[i].current_user = user /\ ss[i].status \in {"RESERVED", "SOLD"}}

\* the loop breaks at the first match in iteration (insertion) order
FirstUserSeat(ss, user) ==
    CHOOSE i \in UserSeats(ss, user) : \A j \in UserSeats(ss, user) : i <= j

\* variant: the old seat is recorded as soon as it is found, before the
\* target seat is checked
ChangeSeat_execute_saves_early(self, session, ss, new_seat_id, user) ==
    IF session = NoSession THEN Raised(ss, self)
    ELSE IF UserSeats(ss, user) = {} THEN Returned(FALSE, ss, self)
    ELSE LET old == FirstUserSeat(ss, user)
             saved == [old_seat_id |-> old, old_status |-> ss[old].status, old_user |-> user]
             freed == [ss EXCEPT ![old] = [status |-> "FREE", current_user |-> NoUser]]
         IN  IF ~has_seat(ss, new_seat_id) \/ ss[new_seat_id].status # "FREE"
             THEN Returned(FALSE, ss, saved)
             ELSE Returned(TRUE,
                           [freed EXCEPT ![new_seat_id] =
                                [status |-> saved.old_status, current_user |-> user]],
                           saved)

\* variant: the target seat only has to exist
ChangeSeat_execute_any_target(self, session, ss, new_seat_id, user) ==
    IF session = NoSession THEN Raised(ss, self)
    ELSE IF UserSeats(ss, user) = {} THEN Returned(FALSE, ss, self)
    ELSE IF ~has_seat(ss, new_seat_id) THEN Returned(FALSE, ss, self)
    ELSE LET old == FirstUserSeat(ss, user)
             saved == [old_seat_id |-> old, old_status |-> ss[old].status, old_user |-> user]
             freed == [ss EXCEPT ![old] = [status |-> "FREE", current_user |-> NoUser]]
         IN  Returned(TRUE,
                      [freed EXCEPT ![new_seat_id] =
                           [status |-> saved.old_status, current_user |-> user]],
                      saved)

ChangeSeat_execute(self, session, ss, new_seat_id, user) ==
    IF session = NoSession THEN Raised(ss, self)
    ELSE IF UserSeats(ss, user) = {} THEN Returned(FALSE, ss, self)
    ELSE IF ~has_seat(ss, new_seat_id) \/ ss[new_seat_id].status # "FREE"
         THEN Returned(FALSE, ss, self)
    ELSE LET old == FirstUserSeat(ss, user)
             saved == [old_seat_id |-> old, old_status |-> ss[old].status, old_user |-> user]
             freed == [ss EXCEPT ![old] = [status |-> "FREE", current_user |-> NoUser]]
         IN  Returned(TRUE,
                      [freed EXCEPT ![new_seat_id] =
                           [status |-> saved.old_status, current_user |-> user]],
                      saved)

\* variant: the old seat always comes back as RESERVED
ChangeSeat_undo_restores_reserved(self, session, ss, new_seat_id, user) ==
    IF self.old_seat_id = NoSeatId THEN Returned(FALSE, ss, self)
    ELSE IF session = NoSession THEN Raised(ss, self)
    ELSE IF ~has_seat(ss, self.old_seat_id) \/ ~has_seat(ss, new_seat_id)
         THEN Returned(FALSE, ss, self)
    ELSE LET freed == [ss EXCEPT ![new_seat_id] = [status |-> "FREE", current_user |-> NoUser]]
         IN  Returned(TRUE,
                      [freed EXCEPT ![self.old_seat_id] =
                           [status |-> "RESERVED", current_user |-> self.old_user]],
                      self)

ChangeSeat_undo(self, session, ss, new_seat_id, user) ==
    IF self.old_seat_id = NoSeatId THEN Returned(FALSE, ss, self)
    ELSE IF session = NoSession THEN Raised(ss, self)
    ELSE IF ~has_seat(ss, self.old_seat_id) \/ ~has_seat(ss, new_seat_id)
         THEN Returned(FALSE, ss, self)
    ELSE LET freed == [ss EXCEPT ![new_seat_id] = [status |-> "FREE", current_user |-> NoUser]]
         IN  Returned(TRUE,
                      [freed EXCEPT ![self.old_seat_id] =
                           [status |-> self.old_status, current_user |-> self.old_user]],
                      self)

\* --------------------------------------------- BookingCommand (dispatch)
BookingCommand_execute(cmd, self, session, ss, seat_id, user) ==
    CASE cmd = "ReserveSeat" -> ReserveSeat_execute(self, session, ss, seat_id, user)
      [] cmd = "CancelReservation" -> CancelReservation_execute(self, session, ss, seat_id, user)
      [] cmd = "PurchaseTicket" -> PurchaseTicket_execute(self, session, ss, seat_id, user)
      [] cmd = "ChangeSeat" -> ChangeSeat_execute(self, session, ss, seat_id, user)

BookingCommand_undo(cmd, self, session, ss, seat_id, user) ==
    CASE cmd = "ReserveSeat" -> ReserveSeat_undo(self, session, ss, seat_id, user)
      [] cmd = "CancelReservation" -> CancelReservation_undo(self, session, ss, seat_id, user)
      [] cmd = "PurchaseTicket" -> PurchaseTicket_undo(self, session, ss, seat_id, user)
      [] cmd = "ChangeSeat" -> ChangeSeat_undo(self, session, ss, seat_id, user)

\* the outcome of calling command.execute / command.undo in the current state
CallOutcome(cmd, op, seat_id, user) ==
    IF op = "execute"
    THEN BookingCommand_execute(cmd, change_cmd, TheSession, seats, seat_id, user)
    ELSE BookingCommand_undo(cmd, change_cmd, TheSession, seats, seat_id, user)

\* ------------------------------------------------------- BookingProcessor
\* a history entry: (command, session.session_id, seat_id, user)
HistoryEntry(cmd, seat_id, user) == <<cmd, TheSession, seat_id, user>>

\* variant: the entry is pushed whatever execute returned
BookingProcessor_execute_command_always_pushes(hist, cmd, self, session, ss, seat_id, user) ==
    LET r == BookingCommand_execute(cmd, self, session, ss, seat_id, user)
    IN  [ret |-> r.ret, seats |-> r.seats, self |-> r.self,
         history |-> Append(hist, HistoryEntry(cmd, seat_id, user))]

BookingProcessor_execute_command(hist, cmd, self, session, ss, seat_id, user) ==
    LET r == BookingCommand_execute(cmd, self, session, ss, seat_id, user)
    IN  [ret |-> r.ret, seats |-> r.seats, self |-> r.self,
         history |-> IF r.ret = "true"
                     THEN Append(hist, HistoryEntry(cmd, seat_id, user))
                     ELSE hist]

\* variant: no emptiness test, so list.pop() raises IndexError on an empty history
BookingProcessor_undo_last_unguarded(hist, self, ss) ==
    IF hist = <<>>
    THEN [ret |-> "raised", seats |-> ss, self |-> self, history |-> hist]
    ELSE LET e == hist[Len(hist)]
             r == BookingCommand_undo(e[1], self, NoSession, ss, e[3], e[4])
         IN  [ret |-> r.ret, seats |-> r.seats, self |-> r.self,
              history |-> SubSeq(hist, 1, Len(hist) - 1)]

\* variant: the entry is looked up first and removed only after undo returned
BookingProcessor_undo_last_pops_after(hist, self, ss) ==
    IF hist = <<>>
    THEN [ret |-> "false", seats |-> ss, self |-> self, history |-> hist]
    ELSE LET e == hist[Len(hist)]
             r == BookingCommand_undo(e[1], self, NoSession, ss, e[3], e[4])
         IN  [ret |-> r.ret, seats |-> r.seats, self |-> r.self,
              history |-> IF r.ret = "raised" THEN hist
                          ELSE SubSeq(hist, 1, Len(hist) - 1)]

\* list.pop(): the last entry is removed before the command's undo is called,
\* and the undo is called with None in place of the session
BookingProcessor_undo_last(hist, self, ss) ==
    IF hist = <<>>
    THEN [ret |-> "false", seats |-> ss, self |-> self, history |-> hist]
    ELSE LET e == hist[Len(hist)]
             r == BookingCommand_undo(e[1], self, NoSession, ss, e[3], e[4])
         IN  [ret |-> r.ret, seats |-> r.seats, self |-> r.self,
              history |-> SubSeq(hist, 1, Len(hist) - 1)]

\* ------------------------------------------------------------------ state
NoCall == [op |-> "none", cmd |-> "None", seat_id |-> NoSeatId, user |-> NoUser, result |-> "none"]

Snapshot == [seats |-> seats, change_cmd |-> change_cmd, history |-> history]

\* the calls of the demonstration in main.py, in order, as
\* (command, operation, seat id, user): A1 is seat 1, A2 is seat 2, user1 is 1
MainScript ==
    << <<"ReserveSeat", "execute", 1, 1>>,
       <<"PurchaseTicket", "execute", 1, 1>>,
       <<"PurchaseTicket", "undo", 1, 1>>,
       <<"ReserveSeat", "execute", 1, 1>>,
       <<"ChangeSeat", "execute", 2, 1>>,
       <<"ChangeSeat", "undo", 2, 1>> >>

\* value of scenario once the calls made are no longer a prefix of MainScript
OffScript == Len(MainScript) + 1

\* scenario = k: the calls made since construction are exactly the first k
\* calls of MainScript
FollowScript(cmd, op, seat_id, user) ==
    IF scenario < Len(MainScript) /\ MainScript[scenario + 1] = <<cmd, op, seat_id, user>>
    THEN scenario + 1
    ELSE OffScript

Init ==
    /\ seats = [i \in Seats |-> Seat]
    /\ change_cmd = ChangeSeat_init
    /\ history = <<>>
    /\ call = NoCall
    /\ before = [seats |-> [i \in Seats |-> Seat], change_cmd |-> ChangeSeat_init,
                 history |-> <<>>]
    /\ undo_of_prev = FALSE
    /\ ncalls = 0
    /\ n_ok = 0
    /\ n_pop = 0
    /\ scenario = 0

\* a direct call command.execute(session, seat_id, user) / command.undo(...)
\* with outcome r; undo_of_prev records that an undo directly follows the
\* successful execute of the same command with the same arguments
Direct(cmd, op, r, seat_id, user) ==
    /\ seats' = r.seats
    /\ change_cmd' = r.self
    /\ call' = [op |-> op, cmd |-> cmd, seat_id |-> seat_id, user |-> user, result |-> r.ret]
    /\ before' = Snapshot
    /\ undo_of_prev' = (/\ op = "undo"
                        /\ call.op = "execute"
                        /\ call.result = "true"
                        /\ call.cmd = cmd
                        /\ call.seat_id = seat_id
                        /\ call.user = user)
    /\ scenario' = FollowScript(cmd, op, seat_id, user)
    /\ UNCHANGED <<history, ncalls, n_ok, n_pop>>

ReserveExecute ==
    \E seat_id \in SeatIds, user \in Users :
        Direct("ReserveSeat", "execute",
               ReserveSeat_execute(change_cmd, TheSession, seats, seat_id, user), seat_id, user)

ReserveUndo ==
    \E seat_id \in SeatIds, user \in Users :
        Direct("ReserveSeat", "undo",
               ReserveSeat_undo(change_cmd, TheSession, seats, seat_id, user), seat_id, user)

CancelExecute ==
    \E seat_id \in SeatIds, user \in Users :
        Direct("CancelReservation", "execute",
               CancelReservation_execute(change_cmd, TheSession, seats, seat_id, user),
               seat_id, user)

CancelUndo ==
    \E seat_id \in SeatIds, user \in Users :
        Direct("CancelReservation", "undo",
               CancelReservation_undo(change_cmd, TheSession, seats, seat_id, user),
               seat_id, user)

PurchaseExecute ==
    \E seat_id \in SeatIds, user \in Users :
        Direct("PurchaseTicket", "execute",
               PurchaseTicket_execute(change_cmd, TheSession, seats, seat_id, user),
               seat_id, user)

PurchaseUndo ==
    \E seat_id \in SeatIds, user \in Users :
        Direct("PurchaseTicket", "undo",
               PurchaseTicket_undo(change_cmd, TheSession, seats, seat_id, user),
               seat_id, user)

ChangeExecute ==
    \E seat_id \in SeatIds, user \in Users :
        Direct("ChangeSeat", "execute",
               ChangeSeat_execute(change_cmd, TheSession, seats, seat_id, user), seat_id, user)

ChangeUndo ==
    \E seat_id \in SeatIds, user \in Users :
        Direct("ChangeSeat", "undo",
               ChangeSeat_undo(change_cmd, TheSession, seats, seat_id, user), seat_id, user)

\* processor.execute_command(command, session, seat_id, user)
ExecuteCommand ==
    /\ ncalls < MaxCalls
    /\ \E cmd \in Commands, seat_id \in SeatIds, user \in Users :
        LET r == BookingProcessor_execute_command(history, cmd, change_cmd, TheSession,
                                                 seats, seat_id, user)
        IN  /\ seats' = r.seats
            /\ change_cmd' = r.self
            /\ history' = r.history
            /\ call' = [op |-> "execute_command", cmd |-> cmd, seat_id |-> seat_id,
                        user |-> user, result |-> r.ret]
            /\ n_ok' = IF r.ret = "true" THEN n_ok + 1 ELSE n_ok
    /\ before' = Snapshot
    /\ undo_of_prev' = FALSE
    /\ ncalls' = ncalls + 1
    /\ scenario' = OffScript
    /\ UNCHANGED n_pop

\* processor.undo_last()
UndoLast ==
    /\ ncalls < MaxCalls
    /\ LET r == BookingProcessor_undo_last(history, change_cmd, seats)
           e == IF history = <<>> THEN HistoryEntry("None", NoSeatId, NoUser)
                ELSE history[Len(history)]
       IN  /\ seats' = r.seats
           /\ change_cmd' = r.self
           /\ history' = r.history
           /\ call' = [op |-> "undo_last", cmd |-> e[1], seat_id |-> e[3],
                       user |-> e[4], result |-> r.ret]
    /\ n_pop' = IF history # <<>> THEN n_pop + 1 ELSE n_pop
    /\ before' = Snapshot
    /\ undo_of_prev' = FALSE
    /\ ncalls' = ncalls + 1
    /\ scenario' = OffScript
    /\ UNCHANGED n_ok

\* direct calls of the commands on the session
NextCmd ==
    \/ ReserveExecute
    \/ ReserveUndo
    \/ CancelExecute
    \/ CancelUndo
    \/ PurchaseExecute
    \/ PurchaseUndo
    \/ ChangeExecute
    \/ ChangeUndo

SpecCmd == Init /\ [][NextCmd]_vars

\* direct execute calls only
NextExec ==
    \/ ReserveExecute
    \/ CancelExecute
    \/ PurchaseExecute
    \/ ChangeExecute

SpecExec == Init /\ [][NextExec]_vars

\* calls through the processor
NextProc ==
    \/ ExecuteCommand
    \/ UndoLast

SpecProc == Init /\ [][NextProc]_vars

TypeOK ==
    /\ seats \in [Seats -> [status : SeatStatus, current_user : Users \cup {NoUser}]]
    /\ change_cmd \in [old_seat_id : Seats \cup {NoSeatId},
                       old_status : SeatStatus \cup {NoStatus},
                       old_user : Users \cup {NoUser}]
    /\ Len(history) <= MaxCalls
    /\ call.result \in {"none", "true", "false", "raised"}
    /\ undo_of_prev \in BOOLEAN
    /\ ncalls \in 0..MaxCalls
    /\ scenario \in 0..OffScript

\* ------------------------------------------------------------- properties
FreeSeat == [status |-> "FREE", current_user |-> NoUser]

\* C1: after any sequence of direct execute and undo calls from the all-FREE
\* session, every seat is FREE exactly when it has no occupant.
C1_FreeIffNoOccupant ==
    \A i \in Seats : (seats[i].status = "FREE") <=> (seats[i].current_user = NoUser)

\* C1 witness: ChangeSeat.undo has just moved a SOLD ticket back, leaving one
\* seat occupied and another one FREE.
C1_Witness ==
    /\ call.op = "undo"
    /\ call.cmd = "ChangeSeat"
    /\ call.result = "true"
    /\ \E i, j \in Seats : seats[i].status = "SOLD" /\ seats[j] = FreeSeat
    /\ before.seats # seats

\* C2: a direct execute or undo that returns False leaves every seat and the
\* ChangeSeat instance's recorded old seat id, status and user as they were.
C2_FailureMutatesNothing ==
    (call.op \in {"execute", "undo"} /\ call.result = "false")
        => (seats = before.seats /\ change_cmd = before.change_cmd)

\* C2 witness: ChangeSeat.execute found the user's old seat but the target
\* seat was not FREE, and it returned False.
C2_Witness ==
    /\ call.op = "execute"
    /\ call.cmd = "ChangeSeat"
    /\ call.result = "false"
    /\ \E o \in Seats : /\ before.seats[o].current_user = call.user
                        /\ before.seats[o].status \in {"RESERVED", "SOLD"}
    /\ has_seat(before.seats, call.seat_id)
    /\ before.seats[call.seat_id].status # "FREE"

\* C3 (as claimed): every call of the API ends by returning a boolean, never
\* by raising.
C3_AlwaysReturnsBoolean ==
    call.op # "none" => call.result \in {"true", "false"}

\* what command.undo does to the seats when it is given the session
RevertedSeats(e) ==
    BookingCommand_undo(e[1], before.change_cmd, TheSession, before.seats, e[3], e[4]).seats

\* C4 (as claimed): undo_last on a non-empty history removes the most recent
\* entry and succeeds in reverting that command on the session; on an empty
\* history it returns False.
C4_UndoLastRevertsInReverseOrder ==
    call.op = "undo_last" =>
        IF before.history = <<>>
        THEN call.result = "false"
        ELSE LET e == before.history[Len(before.history)]
             IN  /\ call.result = "true"
                 /\ <<call.cmd, call.seat_id, call.user>> = <<e[1], e[3], e[4]>>
                 /\ history = SubSeq(before.history, 1, Len(before.history) - 1)
                 /\ seats = RevertedSeats(e)

\* C5: execute_command returns what command.execute returns; on True exactly
\* one entry (command, session id, seat id, user) is appended and the earlier
\* entries stay; on False the history is unchanged; the history length is the
\* number of successful execute_command calls minus the number of undo_last
\* calls made on a non-empty history.
C5_HistoryGrowsOnSuccessOnly ==
    /\ call.op = "execute_command" =>
        /\ call.result = BookingCommand_execute(call.cmd, before.change_cmd, TheSession,
                                                before.seats, call.seat_id, call.user).ret
        /\ call.result = "true" =>
               history = before.history \o <<<<call.cmd, TheSession, call.seat_id, call.user>>>>
        /\ call.result # "true" => history = before.history
    /\ Len(history) = n_ok - n_pop

\* C5 witness: a successful execute_command pushed on top of an earlier entry
\* after an undo_last had already popped one.
C5_Witness ==
    /\ call.op = "execute_command"
    /\ call.result = "true"
    /\ Len(before.history) >= 1
    /\ Len(history) = Len(before.history) + 1
    /\ n_pop >= 1

\* C6: undo_last on an empty history returns False and changes neither the
\* history nor any seat.
C6_UndoLastOnEmptyHistory ==
    (call.op = "undo_last" /\ before.history = <<>>)
        => /\ call.result = "false"
           /\ history = <<>>
           /\ seats = before.seats
           /\ change_cmd = before.change_cmd

\* C6 witness: undo_last returned False on a history emptied by earlier pops,
\* with a seat still occupied.
C6_Witness ==
    /\ call.op = "undo_last"
    /\ before.history = <<>>
    /\ call.result = "false"
    /\ n_pop >= 1
    /\ \E i \in Seats : seats[i].status # "FREE"

\* C7: Reserve.execute on an existing FREE seat succeeds and leaves it
\* RESERVED for the user; a Reserve.undo with the same arguments directly after
\* it succeeds and puts every seat back as it was before the execute, the
\* reserved seat being FREE with no occupant again.
C7_ReserveRoundTrip ==
    [][ /\ ( /\ call'.op = "execute"
             /\ call'.cmd = "ReserveSeat"
             /\ has_seat(seats, call'.seat_id)
             /\ seats[call'.seat_id].status = "FREE" )
           => /\ call'.result = "true"
              /\ seats'[call'.seat_id] = [status |-> "RESERVED", current_user |-> call'.user]
        /\ ( /\ call.op = "execute"
             /\ call.cmd = "ReserveSeat"
             /\ call.result = "true"
             /\ call'.op = "undo"
             /\ call'.cmd = "ReserveSeat"
             /\ call'.seat_id = call.seat_id
             /\ call'.user = call.user )
           => /\ call'.result = "true"
              /\ seats'[call.seat_id] = FreeSeat
              /\ seats' = before.seats
      ]_vars

\* C7 witness: Reserve.undo succeeded directly after the Reserve.execute of
\* the same seat and user, and the seat is FREE with no occupant.
C7_Witness ==
    /\ undo_of_prev
    /\ call.op = "undo"
    /\ call.cmd = "ReserveSeat"
    /\ call.result = "true"
    /\ before.seats[call.seat_id] = [status |-> "RESERVED", current_user |-> call.user]
    /\ seats[call.seat_id] = FreeSeat

\* C8: Reserve.execute returns True exactly when the seat exists and is FREE;
\* on a RESERVED or SOLD seat, whoever holds it, it returns False and the
\* seat keeps its status and occupant.
C8_ReserveGuard ==
    (call.op = "execute" /\ call.cmd = "ReserveSeat") =>
        /\ (call.result = "true") <=>
               (call.seat_id \in Seats /\ before.seats[call.seat_id].status = "FREE")
        /\ (call.seat_id \in Seats /\ before.seats[call.seat_id].status \in {"RESERVED", "SOLD"})
               => (call.result = "false" /\ seats[call.seat_id] = before.seats[call.seat_id])

\* C8 witness: Reserve.execute was refused on a seat RESERVED by the caller.
C8_Witness ==
    /\ call.op = "execute"
    /\ call.cmd = "ReserveSeat"
    /\ call.result = "false"
    /\ call.seat_id \in Seats
    /\ before.seats[call.seat_id] = [status |-> "RESERVED", current_user |-> call.user]
    /\ seats = before.seats

\* C9: Purchase.execute returns True exactly when the seat exists and is FREE
\* or RESERVED, and then the seat is SOLD to the caller, also when another
\* user held the reservation; on a SOLD or missing seat it returns False.
C9_PurchaseGuard ==
    (call.op = "execute" /\ call.cmd = "PurchaseTicket") =>
        /\ (call.result = "true") <=>
               (call.seat_id \in Seats /\ before.seats[call.seat_id].status \in {"FREE", "RESERVED"})
        /\ (call.result = "true") =>
               seats[call.seat_id] = [status |-> "SOLD", current_user |-> call.user]
        /\ (call.seat_id \notin Seats \/ before.seats[call.seat_id].status = "SOLD")
               => call.result = "false"
        /\ call.result \in {"true", "false"}

\* C9 witness: Purchase.execute succeeded on a seat RESERVED by another user,
\* which is now SOLD to the caller.
C9_Witness ==
    /\ call.op = "execute"
    /\ call.cmd = "PurchaseTicket"
    /\ call.result = "true"
    /\ before.seats[call.seat_id].status = "RESERVED"
    /\ before.seats[call.seat_id].current_user # call.user
    /\ seats[call.seat_id] = [status |-> "SOLD", current_user |-> call.user]

C11_ChangeSeatRoundTrip ==
    [][ /\ ( /\ call'.op = "undo"
             /\ call'.cmd = "ChangeSeat"
             /\ change_cmd = ChangeSeat_init )
           => /\ call'.result = "false"
              /\ seats' = seats
              /\ change_cmd' = change_cmd
        /\ ( /\ call.op = "execute"
             /\ call.cmd = "ChangeSeat"
             /\ call.result = "true"
             /\ call'.op = "undo"
             /\ call'.cmd = "ChangeSeat"
             /\ call'.seat_id = call.seat_id
             /\ call'.user = call.user )
           => /\ call'.result = "true"
              /\ seats'[call.seat_id] = FreeSeat
              /\ seats'[change_cmd.old_seat_id] =
                     [status |-> change_cmd.old_status, current_user |-> change_cmd.old_user]
              /\ change_cmd.old_status \in {"RESERVED", "SOLD"}
              /\ change_cmd.old_user = call.user
              /\ seats' = before.seats
      ]_vars

\* C11 witness: ChangeSeat.undo succeeded directly after the ChangeSeat.execute
\* that had moved a SOLD ticket, and the ticket is back on the old seat.
C11_Witness ==
    /\ undo_of_prev
    /\ call.op = "undo"
    /\ call.cmd = "ChangeSeat"
    /\ call.result = "true"
    /\ before.seats[call.seat_id] = [status |-> "SOLD", current_user |-> call.user]
    /\ seats[call.seat_id] = FreeSeat
    /\ seats[change_cmd.old_seat_id] = [status |-> "SOLD", current_user |-> call.user]

\* C12: the demonstration of main.py, called directly on the session with
\* seats A1 and A2 FREE and user U1: Reserve.execute(A1) returns True and A1
\* is RESERVED/U1; Purchase.execute(A1) returns True and A1 is SOLD/U1;
\* Purchase.undo(A1) returns True and A1 is FREE; Reserve.execute(A1) returns
\* True; ChangeSeat.execute(A2) returns True with A1 FREE and A2 RESERVED/U1;
\* ChangeSeat.undo(A2) returns True with A1 RESERVED/U1 and A2 FREE.
C12_MainScenario ==
    /\ scenario \in 1..Len(MainScript) => call.result = "true"
    /\ scenario = 1 => seats[1] = [status |-> "RESERVED", current_user |-> 1]
    /\ scenario = 2 => seats[1] = [status |-> "SOLD", current_user |-> 1]
    /\ scenario = 3 => seats[1] = FreeSeat
    /\ scenario = 4 => seats[1] = [status |-> "RESERVED", current_user |-> 1]
    /\ scenario = 5 => /\ seats[1] = FreeSeat
                       /\ seats[2] = [status |-> "RESERVED", current_user |-> 1]
    /\ scenario = 6 => /\ seats[1] = [status |-> "RESERVED", current_user |-> 1]
                       /\ seats[2] = FreeSeat

\* C12 witness: the six calls of the demonstration have been made and the
\* reservation is back on A1.
C12_Witness ==
    /\ scenario = Len(MainScript)
    /\ call.result = "true"
    /\ seats[1] = [status |-> "RESERVED", current_user |-> 1]
    /\ seats[2] = FreeSeat

\* C13: Cancel.execute returns True exactly when the seat exists, is RESERVED
\* and its occupant is the caller, and then the seat is FREE with no occupant
\* (so neither another user's reservation nor a SOLD seat is ever cancelled);
\* Cancel.undo returns True exactly when the seat exists and is FREE, and then
\* the seat is RESERVED for the given user; Cancel.undo directly after a
\* successful Cancel.execute with the same arguments puts the seat back to
\* RESERVED for the same user.
C13_CancelGuards ==
    [][ /\ (call'.op = "execute" /\ call'.cmd = "CancelReservation") =>
            /\ (call'.result = "true") <=>
                   /\ call'.seat_id \in Seats
                   /\ seats[call'.seat_id] = [status |-> "RESERVED", current_user |-> call'.user]
            /\ call'.result \in {"true", "false"}
            /\ (call'.result = "true") => seats'[call'.seat_id] = FreeSeat
            /\ \A i \in Seats :
                   (seats[i].status = "SOLD" \/ seats[i].current_user # call'.user)
                       => seats'[i] = seats[i]
        /\ (call'.op = "undo" /\ call'.cmd = "CancelReservation") =>
            /\ (call'.result = "true") <=>
                   (call'.seat_id \in Seats /\ seats[call'.seat_id].status = "FREE")
            /\ call'.result \in {"true", "false"}
            /\ (call'.result = "true") =>
                   seats'[call'.seat_id] = [status |-> "RESERVED", current_user |-> call'.user]
        /\ ( /\ call.op = "execute"
             /\ call.cmd = "CancelReservation"
             /\ call.result = "true"
             /\ call'.op = "undo"
             /\ call'.cmd = "CancelReservation"
             /\ call'.seat_id = call.seat_id
             /\ call'.user = call.user )
           => /\ call'.result = "true"
              /\ seats'[call.seat_id] = [status |-> "RESERVED", current_user |-> call.user]
              /\ seats' = before.seats
      ]_vars

\* C13 witness: Cancel.undo succeeded directly after the Cancel.execute of the
\* same seat and user, and the seat is RESERVED for that user again.
C13_Witness ==
    /\ undo_of_prev
    /\ call.op = "undo"
    /\ call.cmd = "CancelReservation"
    /\ call.result = "true"
    /\ before.seats[call.seat_id] = FreeSeat
    /\ seats[call.seat_id] = [status |-> "RESERVED", current_user |-> call.user]

\* C14: Purchase.undo returns True exactly when the seat exists, is SOLD and
\* its occupant is the given user, and then the seat is FREE with no occupant;
\* in particular after Reserve.execute, Purchase.execute, Purchase.undo by the
\* same user on the same seat (the first three calls of main.py) the seat is
\* FREE and not RESERVED.
C14_PurchaseUndo ==
    /\ (call.op = "undo" /\ call.cmd = "PurchaseTicket") =>
        /\ (call.result = "true") <=>
               /\ call.seat_id \in Seats
               /\ before.seats[call.seat_id] = [status |-> "SOLD", current_user |-> call.user]
        /\ call.result \in {"true", "false"}
        /\ (call.result = "true") => seats[call.seat_id] = FreeSeat
    /\ scenario = 3 =>
        /\ call = [op |-> "undo", cmd |-> "PurchaseTicket", seat_id |-> 1, user |-> 1,
                   result |-> "true"]
        /\ seats[1].status = "FREE"
        /\ seats[1].current_user = NoUser

\* C14 witness: Purchase.undo has just succeeded as the third call after
\* Reserve.execute and Purchase.execute on the same seat by the same user.
C14_Witness ==
    /\ scenario = 3
    /\ call.op = "undo"
    /\ call.cmd = "PurchaseTicket"
    /\ call.result = "true"
    /\ undo_of_prev
    /\ before.seats[1] = [status |-> "SOLD", current_user |-> 1]
    /\ seats[1] = FreeSeat

\* C15 (as claimed): in a single execute or undo call no seat goes from SOLD
\* to RESERVED, and every change of a seat's status is a transition of the
\* command table: Reserve FREE->RESERVED and back, Cancel RESERVED->FREE and
\* back, Purchase FREE/RESERVED->SOLD and SOLD->FREE, ChangeSeat
\* RESERVED/SOLD->FREE on the old seat and FREE->RESERVED/SOLD on the target,
\* and the reverse of both on undo.
C15_SeatStateMachine ==
    LET Table ==
            {<<"ReserveSeat", "execute", "FREE", "RESERVED">>,
             <<"ReserveSeat", "undo", "RESERVED", "FREE">>,
             <<"CancelReservation", "execute", "RESERVED", "FREE">>,
             <<"CancelReservation", "undo", "FREE", "RESERVED">>,
             <<"PurchaseTicket", "execute", "FREE", "SOLD">>,
             <<"PurchaseTicket", "execute", "RESERVED", "SOLD">>,
             <<"PurchaseTicket", "undo", "SOLD", "FREE">>,
             <<"ChangeSeat", "execute", "RESERVED", "FREE">>,
             <<"ChangeSeat", "execute", "SOLD", "FREE">>,
             <<"ChangeSeat", "execute", "FREE", "RESERVED">>,
             <<"ChangeSeat", "execute", "FREE", "SOLD">>,
             <<"ChangeSeat", "undo", "RESERVED", "FREE">>,
             <<"ChangeSeat", "undo", "SOLD", "FREE">>,
             <<"ChangeSeat", "undo", "FREE", "RESERVED">>,
             <<"ChangeSeat", "undo", "FREE", "SOLD">>}
    IN  call.op \in {"execute", "undo"} =>
            \A i \in Seats :
                /\ ~(before.seats[i].status = "SOLD" /\ seats[i].status = "RESERVED")
                /\ before.seats[i].status # seats[i].status
                       => <<call.cmd, call.op, before.seats[i].status, seats[i].status>> \in Table

\* C16 (as claimed): under execute calls only, from the all-FREE session, no
\* user is the occupant of more than one seat, so the search of
\* ChangeSeat.execute never has more than one candidate.
C16_OneSeatPerUser ==
    \A u \in Users :
        /\ Cardinality({i \in Seats : seats[i].current_user = u}) <= 1
        /\ Cardinality(UserSeats(seats, u)) <= 1

\* C17: no seat is ever stuck: in every reachable state, for every seat that
\* is not FREE some single execute or undo call succeeds and leaves it FREE
\* with no occupant (a SOLD seat included), and for every FREE seat some call
\* makes it RESERVED and some call makes it SOLD.
C17_NoTerminalState ==
    \A i \in Seats :
        /\ seats[i] # FreeSeat =>
               \E cmd \in Commands, op \in {"execute", "undo"}, s \in SeatIds, u \in Users :
                   /\ CallOutcome(cmd, op, s, u).ret = "true"
                   /\ CallOutcome(cmd, op, s, u).seats[i] = FreeSeat
        /\ seats[i] = FreeSeat =>
               \A st \in {"RESERVED", "SOLD"} :
                   \E cmd \in Commands, op \in {"execute", "undo"}, s \in SeatIds, u \in Users :
                       /\ CallOutcome(cmd, op, s, u).ret = "true"
                       /\ CallOutcome(cmd, op, s, u).seats[i].status = st

\* C17 witness: with every seat SOLD, a call succeeded and left a seat FREE.
C17_Witness ==
    /\ call.op \in {"execute", "undo"}
    /\ call.result = "true"
    /\ \A i \in Seats : before.seats[i].status = "SOLD"
    /\ \E i \in Seats : seats[i] = FreeSeat

\* C18: undo_last on a non-empty history removes exactly the most recent
\* entry, whatever the command's undo then does, and keeps the other entries
\* in order; the undo is that entry's command, called with the recorded seat
\* id and user and with no session, so the call ends as that undo ends.
C18_UndoLastPopsFirst ==
    (call.op = "undo_last" /\ before.history # <<>>) =>
        LET e == before.history[Len(before.history)]
        IN  /\ history = SubSeq(before.history, 1, Len(before.history) - 1)
            /\ Len(history) = Len(before.history) - 1
            /\ \A k \in 1..Len(history) : history[k] = before.history[k]
            /\ <<call.cmd, call.seat_id, call.user>> = <<e[1], e[3], e[4]>>
            /\ call.result = BookingCommand_undo(e[1], before.change_cmd, NoSession,
                                                 before.seats, e[3], e[4]).ret

\* C18 witness: undo_last ended abnormally on a history of two or more
\* entries, and the top entry is gone while the others remain.
C18_Witness ==
    /\ call.op = "undo_last"
    /\ Len(before.history) >= 2
    /\ call.result = "raised"
    /\ history = SubSeq(before.history, 1, Len(before.history) - 1)
    /\ seats = before.seats

C20_SoldSeatNotTakenOver ==
    call.op = "execute" =>
        \A i \in Seats :
            before.seats[i].status = "SOLD" =>
                /\ before.seats[i].current_user # call.user => seats[i] = before.seats[i]
                /\ seats[i] # before.seats[i] =>
                       /\ call.cmd = "ChangeSeat"
                       /\ call.result = "true"
                       /\ before.seats[i].current_user = call.user

\* C20 witness: Purchase.execute was refused on a seat SOLD to another user,
\* and the seat is unchanged.
C20_Witness ==
    /\ call.op = "execute"
    /\ call.cmd = "PurchaseTicket"
    /\ call.result = "false"
    /\ call.seat_id \in Seats
    /\ before.seats[call.seat_id].status = "SOLD"
    /\ before.seats[call.seat_id].current_user \notin {call.user, NoUser}
    /\ seats[call.seat_id] = before.seats[call.seat_id]

====
